---- MODULE Spec2Model ----
(***************************************************************************)
(* Model of src/index.js (Website Buddy Actions): the express handlers     *)
(* /github/get-file, /github/put-file, /deploy/upload-ftp and              *)
(* /deploy/upload-zip, together with the helper uploadBuffer.              *)
(*                                                                         *)
(* A handler is an async function: it runs without interruption up to its  *)
(* next `await`, where the network call it has just issued is in flight.   *)
(* Each action below is one such continuation: the arrival of a request up *)
(* to the first await, or the return of the awaited call (with the outcome *)
(* the remote system gives it) up to the next await or to the end of the   *)
(* handler, `catch` and `finally` blocks included.                         *)
(*                                                                         *)
(* Strings the code takes apart (remote paths, entry names) are sequences  *)
(* of one-character strings; contents are sequences of UTF-16 code units.  *)
(* An optional value is None or Some(v).                                   *)
(***************************************************************************)
EXTENDS Integers, Sequences, FiniteSets, TLC

VARIABLES pc, req, loc, log, store, serverFiles

vars == <<pc, req, loc, log, store, serverFiles>>

(***************************************************************************)
(* Bounds of the model.                                                    *)
(***************************************************************************)
NumReqs == 2

MaxEntries == 2

MaxPathLen == 3

Reqs == 1..NumReqs

None == <<>>

Some(v) == <<v>>

IsSome(o) == o # None

Val(o) == o[1]

(***************************************************************************)
(* Strings as character sequences.                                         *)
(***************************************************************************)
Slash == "/"

\* "/htdocs", the default of basePath.
DefaultBasePath == <<"/", "h", "t", "d", "o", "c", "s">>

\* "/htdocs/index.html", the default of remotePath.
DefaultRemotePath ==
    <<"/", "h", "t", "d", "o", "c", "s", "/",
      "i", "n", "d", "e", "x", ".", "h", "t", "m", "l">>

\* Only one leading slash removed: replace(/^\//, "").
StripOneSlash(s) == IF s # <<>> /\ Head(s) = Slash THEN Tail(s) ELSE s

\* e.entryName.replace(/^\/+/, "")
RECURSIVE StripLeadingSlashes(_)
StripLeadingSlashes(s) ==
    IF s # <<>> /\ Head(s) = Slash THEN StripLeadingSlashes(Tail(s)) ELSE s

\* remotePath.split("/"): the segments between slashes, empty ones included.
RECURSIVE SplitFrom(_, _, _)
SplitFrom(s, i, cur) ==
    IF i > Len(s) THEN <<cur>>
    ELSE IF s[i] = Slash THEN <<cur>> \o SplitFrom(s, i + 1, <<>>)
    ELSE SplitFrom(s, i + 1, Append(cur, s[i]))

Split(s) == SplitFrom(s, 1, <<>>)

\* .filter(Boolean): an empty segment is falsy.
FilterBoolean(segs) == SelectSeq(segs, LAMBDA x : x # <<>>)

\* dirs.join("/")
RECURSIVE Join(_)
Join(segs) ==
    IF segs = <<>> THEN <<>>
    ELSE IF Len(segs) = 1 THEN segs[1]
    ELSE segs[1] \o <<Slash>> \o Join(Tail(segs))

\* const parts = remotePath.split("/").filter(Boolean);
Parts(remotePath) == FilterBoolean(Split(remotePath))

\* Only the first directory of the path: parts.slice(0, 1).
DirsShallow(remotePath) ==
    LET parts == Parts(remotePath)
    IN  IF Len(parts) <= 1 THEN <<>> ELSE SubSeq(parts, 1, 1)

\* const dirs = parts.slice(0, -1);
Dirs(remotePath) ==
    LET parts == Parts(remotePath)
    IN  IF Len(parts) = 0 THEN <<>> ELSE SubSeq(parts, 1, Len(parts) - 1)

\* "/" + dirs.join("/")
EnsureDirArg(remotePath) == <<Slash>> \o Join(Dirs(remotePath))

\* const remote = basePath + "/" + e.entryName.replace(/^\/+/, "");
Remote(basePath, entryName) ==
    basePath \o <<Slash>> \o StripLeadingSlashes(entryName)


(***************************************************************************)
(* The record of what a request did: the calls it issued, their returns,   *)
(* the response it reported and the close of its transfer session.         *)
(***************************************************************************)
Call(op, arg, idx) ==
    [t |-> "call", op |-> op, arg |-> arg, idx |-> idx, err |-> None,
     status |-> 0, body |-> None]

Ret(op, arg, idx, err) ==
    [t |-> "ret", op |-> op, arg |-> arg, idx |-> idx, err |-> err,
     status |-> 0, body |-> None]

\* res.status(status).json(body) / res.json(body) / res.send(body)
Res(status, body) ==
    [t |-> "res", op |-> "res", arg |-> None, idx |-> 0, err |-> None,
     status |-> status, body |-> Some(body)]

\* client.close()
CloseEv ==
    [t |-> "close", op |-> "close", arg |-> None, idx |-> 0, err |-> None,
     status |-> 0, body |-> None]

ErrorBody(msg) == [error |-> msg]

NoReq == [kind |-> "none", file |-> None, body |-> None]

NoLoc ==
    [entries |-> <<>>, i |-> 0, remote |-> <<>>, basePath |-> <<>>, sha |-> None]

\* What a continuation of a handler does: the events it adds to the
\* request's record, where the handler is suspended next, its locals.
Step(evs, nextpc, l) == [evs |-> evs, pc |-> nextpc, loc |-> l]

\* The return of the awaited call, then the continuation.
After(ev, st) == [st EXCEPT !.evs = <<ev>> \o @]

\* Handlers that share one queue: a request runs only when no request
\* that came with a lower number is waiting for a call.
ApplySerial(r, st) ==
    /\ \A r2 \in 1..(r - 1) : pc[r2] \in {"idle", "done"}
    /\ log' = [log EXCEPT ![r] = log[r] \o st.evs]
    /\ pc' = [pc EXCEPT ![r] = st.pc]
    /\ loc' = [loc EXCEPT ![r] = st.loc]

Apply(r, st) ==
    /\ log' = [log EXCEPT ![r] = log[r] \o st.evs]
    /\ pc' = [pc EXCEPT ![r] = st.pc]
    /\ loc' = [loc EXCEPT ![r] = st.loc]

(***************************************************************************)
(* The transfer server, as the handlers see it: a call succeeds or fails   *)
(* with a message; a successful uploadFrom leaves the file on the server.  *)
(***************************************************************************)
AccessErrors == {"connect ECONNREFUSED"}

TransferErrors == {"550 Permission denied"}

FtpOutcomes(op) ==
    {None} \cup {Some(m) : m \in IF op = "access" THEN AccessErrors
                                                ELSE TransferErrors}

(***************************************************************************)
(* uploadBuffer                                                            *)
(***************************************************************************)
\* An uploadBuffer that does not await ensureDir.
uploadBufferBeginNoAwait(l, remotePath, idx) ==
    Step((IF Len(Dirs(remotePath)) > 0
          THEN <<Call("ensureDir", EnsureDirArg(remotePath), idx)>> ELSE <<>>)
         \o <<Call("uploadFrom", remotePath, idx)>>,
         "uploadFrom", [l EXCEPT !.remote = remotePath, !.i = idx])

\* uploadBuffer up to its first await: ensureDir when the path has parent
\* directories, uploadFrom otherwise.
uploadBufferBegin(l, remotePath, idx) ==
    IF Len(Dirs(remotePath)) > 0
    THEN Step(<<Call("ensureDir", EnsureDirArg(remotePath), idx)>>,
              "ensureDir", [l EXCEPT !.remote = remotePath, !.i = idx])
    ELSE Step(<<Call("uploadFrom", remotePath, idx)>>,
              "uploadFrom", [l EXCEPT !.remote = remotePath, !.i = idx])

\* uploadBuffer after `await client.ensureDir(...)` has returned.
uploadBufferAfterEnsureDir(l) ==
    Step(<<Call("uploadFrom", l.remote, l.i)>>, "uploadFrom", l)

(***************************************************************************)
(* POST /deploy/upload-ftp                                                 *)
(***************************************************************************)
\* A handler that leaves its session open.
uploadFtpFinallyNoClose == <<>>

\* finally { client.close(); }
uploadFtpFinally == <<CloseEv>>

\* A catch that ignores the error and goes on to the upload.
uploadFtpCatchContinue(l, msg) == uploadBufferBegin(l, l.remote, 1)

\* catch (e) { res.status(500).json({ error: e.message }); } finally {...}
uploadFtpCatch(l, msg) ==
    Step(<<Res(500, ErrorBody(msg))>> \o uploadFtpFinally, "done", l)

FtpFiles == {None, Some("payload")}

RemotePaths == {None, Some(<<"f">>)}

\* A handler that connects before it looks at the payload.
uploadFtpStartAccessFirst(r) ==
    /\ pc[r] = "idle"
    /\ \E file \in FtpFiles, remotePath \in RemotePaths :
         /\ req' = [req EXCEPT ![r] =
                      [kind |-> "ftp", file |-> file,
                       body |-> [remotePath |-> remotePath]]]
         /\ Apply(r, Step(<<Call("access", <<>>, 0)>>, "access",
                          [loc[r] EXCEPT !.remote =
                             IF remotePath = None THEN DefaultRemotePath
                             ELSE Val(remotePath)]))
    /\ UNCHANGED <<store, serverFiles>>

\* The handler from the arrival of the request to `await client.access`.
uploadFtpStart(r) ==
    /\ pc[r] = "idle"
    /\ \E file \in FtpFiles, remotePath \in RemotePaths :
         /\ req' = [req EXCEPT ![r] =
                      [kind |-> "ftp", file |-> file,
                       body |-> [remotePath |-> remotePath]]]
         /\ IF file = None
            THEN Apply(r, Step(<<Res(400, ErrorBody("No file. Use field name 'file'."))>>
                               \o uploadFtpFinally, "done", loc[r]))
            ELSE Apply(r, Step(<<Call("access", <<>>, 0)>>, "access",
                               [loc[r] EXCEPT !.remote =
                                  IF remotePath = None THEN DefaultRemotePath
                                  ELSE Val(remotePath)]))
    /\ UNCHANGED <<store, serverFiles>>

\* `await client.access(...)` returns: uploadBuffer starts, or the catch.
uploadFtpAccessReturn(r) ==
    /\ pc[r] = "access"
    /\ req[r].kind = "ftp"
    /\ \E out \in FtpOutcomes("access") :
         Apply(r, After(Ret("access", <<>>, 0, out),
                        IF IsSome(out)
                        THEN uploadFtpCatch(loc[r], Val(out))
                        ELSE uploadBufferBegin(loc[r], loc[r].remote, 1)))
    /\ UNCHANGED <<req, store, serverFiles>>

\* `await uploadBuffer(...)` returns normally.
uploadFtpDone(l) ==
    Step(<<Res(200, [ok |-> TRUE, uploaded |-> l.remote])>> \o uploadFtpFinally,
         "done", l)

(***************************************************************************)
(* POST /deploy/upload-zip                                                 *)
(***************************************************************************)
\* Entries of the archives: a directory entry, files below directories and
\* a file whose name starts with a slash.
EntryDirA == [entryName |-> <<"a", "/">>, isDirectory |-> TRUE]

EntryAB == [entryName |-> <<"a", "/", "b">>, isDirectory |-> FALSE]

EntryACD == [entryName |-> <<"a", "/", "c", "/", "d">>, isDirectory |-> FALSE]

EntryX == [entryName |-> <<"/", "x">>, isDirectory |-> FALSE]

EntrySet == {EntryDirA, EntryAB, EntryACD, EntryX}

SeqsUpTo(S, n) == UNION {[1..k -> S] : k \in 0..n}

\* What `new AdmZip(buffer)` makes of the payload: it throws, or
\* zip.getEntries() is the entries in the order of the archive.
Archives ==
    {[valid |-> FALSE, entries |-> <<>>]}
    \cup {[valid |-> TRUE, entries |-> es] : es \in SeqsUpTo(EntrySet, MaxEntries)}

ZipFiles == {None} \cup {Some(a) : a \in Archives}

BasePaths == {None, Some(<<>>)}

ZipParseError == "Invalid or unsupported zip format. No END header found"

\* A handler that leaves its session open.
uploadZipFinallyNoClose == <<>>

\* finally { client.close(); }
uploadZipFinally == <<CloseEv>>

\* catch (e) { res.status(500).json({ error: e.message }); } finally {...}
uploadZipCatch(l, msg) ==
    Step(<<Res(500, ErrorBody(msg))>> \o uploadZipFinally, "done", l)

\* The index of the first entry after `from` that is not a directory, 0
\* when there is none: `if (e.isDirectory) continue;`
NextFile(entries, from) ==
    LET later == {j \in (from + 1)..Len(entries) : ~entries[j].isDirectory}
    IN  IF later = {} THEN 0
        ELSE CHOOSE j \in later : \A k \in later : j <= k

\* res.json({ ok: true, uploaded: entries.length }), then the finally.
uploadZipDone(l) ==
    Step(<<Res(200, [ok |-> TRUE, uploaded |-> Len(l.entries)])>>
         \o uploadZipFinally, "done", l)

\* The for loop from the entry after `from` to its next await, or to the
\* end of the handler.
uploadZipLoop(l, from) ==
    LET j == NextFile(l.entries, from)
    IN  IF j = 0 THEN uploadZipDone(l)
        ELSE uploadBufferBegin(l, Remote(l.basePath, l.entries[j].entryName), j)

\* The handler from the arrival of the request to `await client.access`.
uploadZipStart(r) ==
    /\ pc[r] = "idle"
    /\ \E file \in ZipFiles, basePath \in BasePaths :
         /\ req' = [req EXCEPT ![r] =
                      [kind |-> "zip", file |-> file,
                       body |-> [basePath |-> basePath]]]
         /\ IF file = None
            THEN Apply(r, Step(<<Res(400, ErrorBody("No zip uploaded. Use field name 'zip'."))>>
                               \o uploadZipFinally, "done", loc[r]))
            ELSE Apply(r, Step(<<Call("access", <<>>, 0)>>, "access",
                               [loc[r] EXCEPT !.basePath =
                                  IF basePath = None THEN DefaultBasePath
                                  ELSE Val(basePath)]))
    /\ UNCHANGED <<store, serverFiles>>

\* `await client.access(...)` returns: the archive is parsed and the loop
\* starts, or the catch.
uploadZipAccessReturn(r) ==
    /\ pc[r] = "access"
    /\ req[r].kind = "zip"
    /\ \E out \in FtpOutcomes("access") :
         LET zip == Val(req[r].file)
             l == [loc[r] EXCEPT !.entries = zip.entries]
         IN  Apply(r, After(Ret("access", <<>>, 0, out),
                            IF IsSome(out) THEN uploadZipCatch(loc[r], Val(out))
                            ELSE IF ~zip.valid
                                 THEN uploadZipCatch(loc[r], ZipParseError)
                            ELSE uploadZipLoop(l, 0)))
    /\ UNCHANGED <<req, store, serverFiles>>

(***************************************************************************)
(* The awaits inside uploadBuffer, for either handler.                     *)
(***************************************************************************)
\* A handler that tries the upload again when uploadBuffer fails.
HandlerCatchRetry(kind, l, msg) ==
    Step(<<Call("uploadFrom", l.remote, l.i)>>, "uploadFrom", l)

\* A handler that goes on with the next entry when uploadBuffer fails.
HandlerCatchContinue(kind, l, msg) ==
    IF kind = "ftp" THEN uploadFtpCatch(l, msg) ELSE uploadZipLoop(l, l.i)

\* An exception of uploadBuffer reaches the catch of the calling handler.
HandlerCatch(kind, l, msg) ==
    IF kind = "ftp" THEN uploadFtpCatch(l, msg) ELSE uploadZipCatch(l, msg)

\* uploadBuffer returns to the calling handler.
HandlerResume(kind, l) ==
    IF kind = "ftp" THEN uploadFtpDone(l) ELSE uploadZipLoop(l, l.i)

\* `await client.ensureDir(...)` returns.
uploadBufferEnsureDirReturn(r) ==
    /\ pc[r] = "ensureDir"
    /\ \E out \in FtpOutcomes("ensureDir") :
         Apply(r, After(Ret("ensureDir", EnsureDirArg(loc[r].remote), loc[r].i, out),
                        IF IsSome(out)
                        THEN HandlerCatch(req[r].kind, loc[r], Val(out))
                        ELSE uploadBufferAfterEnsureDir(loc[r])))
    /\ UNCHANGED <<req, store, serverFiles>>

\* `await client.uploadFrom(...)` returns; on success the file is on the
\* server.
uploadBufferUploadFromReturn(r) ==
    /\ pc[r] = "uploadFrom"
    /\ \E out \in FtpOutcomes("uploadFrom") :
         /\ Apply(r, After(Ret("uploadFrom", loc[r].remote, loc[r].i, out),
                           IF IsSome(out)
                           THEN HandlerCatch(req[r].kind, loc[r], Val(out))
                           ELSE HandlerResume(req[r].kind, loc[r])))
         /\ serverFiles' = IF IsSome(out) THEN serverFiles
                           ELSE serverFiles \cup {loc[r].remote}
    /\ UNCHANGED <<req, store>>

(***************************************************************************)
(* Encodings: Buffer.from(content, "utf-8"), .toString("base64") and back. *)
(* A base64 text is the sequence of its characters' indices in the base64  *)
(* alphabet, Pad for "=".                                                  *)
(***************************************************************************)
Pad == 64

IsHigh(c) == c >= 55296 /\ c <= 56319

IsLow(c) == c >= 56320 /\ c <= 57343

\* One byte for each code unit: Buffer.from(str, "latin1").
Latin1Encode(s) == [i \in 1..Len(s) |-> s[i] % 256]

\* Buffer.from(str, "utf-8"): a lone surrogate becomes U+FFFD (EF BF BD).
RECURSIVE Utf8Encode(_)
Utf8Encode(s) ==
    IF s = <<>> THEN <<>>
    ELSE LET c == Head(s)
         IN  IF c < 128 THEN <<c>> \o Utf8Encode(Tail(s))
             ELSE IF c < 2048
                  THEN <<192 + (c \div 64), 128 + (c % 64)>> \o Utf8Encode(Tail(s))
             ELSE IF IsHigh(c) /\ Len(s) >= 2 /\ IsLow(s[2])
                  THEN LET cp == 65536 + (c - 55296) * 1024 + (s[2] - 56320)
                       IN  <<240 + (cp \div 262144), 128 + ((cp \div 4096) % 64),
                             128 + ((cp \div 64) % 64), 128 + (cp % 64)>>
                           \o Utf8Encode(Tail(Tail(s)))
             ELSE IF IsHigh(c) \/ IsLow(c)
                  THEN <<239, 191, 189>> \o Utf8Encode(Tail(s))
             ELSE <<224 + (c \div 4096), 128 + ((c \div 64) % 64), 128 + (c % 64)>>
                  \o Utf8Encode(Tail(s))

IsCont(bs, i) == i <= Len(bs) /\ bs[i] >= 128 /\ bs[i] <= 191

\* buffer.toString("utf-8"): a byte that starts no well-formed sequence
\* decodes to U+FFFD.
RECURSIVE Utf8Decode(_)
Utf8Decode(bs) ==
    IF bs = <<>> THEN <<>>
    ELSE LET b == Head(bs)
             rest(n) == SubSeq(bs, n + 1, Len(bs))
         IN  IF b < 128 THEN <<b>> \o Utf8Decode(rest(1))
             ELSE IF b >= 194 /\ b <= 223 /\ IsCont(bs, 2)
                  THEN <<(b - 192) * 64 + (bs[2] - 128)>> \o Utf8Decode(rest(2))
             ELSE IF b >= 224 /\ b <= 239 /\ IsCont(bs, 2) /\ IsCont(bs, 3)
                     /\ (b - 224) * 4096 + (bs[2] - 128) * 64 + (bs[3] - 128) >= 2048
                     /\ ~IsHigh((b - 224) * 4096 + (bs[2] - 128) * 64 + (bs[3] - 128))
                     /\ ~IsLow((b - 224) * 4096 + (bs[2] - 128) * 64 + (bs[3] - 128))
                  THEN <<(b - 224) * 4096 + (bs[2] - 128) * 64 + (bs[3] - 128)>>
                       \o Utf8Decode(rest(3))
             ELSE IF b >= 240 /\ b <= 244 /\ IsCont(bs, 2) /\ IsCont(bs, 3)
                     /\ IsCont(bs, 4)
                  THEN LET cp == (b - 240) * 262144 + (bs[2] - 128) * 4096
                                 + (bs[3] - 128) * 64 + (bs[4] - 128)
                       IN  <<55296 + ((cp - 65536) \div 1024),
                             56320 + ((cp - 65536) % 1024)>>
                           \o Utf8Decode(rest(4))
             ELSE <<65533>> \o Utf8Decode(rest(1))

\* .toString("base64")
RECURSIVE Base64Encode(_)
Base64Encode(bs) ==
    IF bs = <<>> THEN <<>>
    ELSE IF Len(bs) = 1
         THEN <<bs[1] \div 4, (bs[1] % 4) * 16, Pad, Pad>>
    ELSE IF Len(bs) = 2
         THEN <<bs[1] \div 4, (bs[1] % 4) * 16 + (bs[2] \div 16),
                (bs[2] % 16) * 4, Pad>>
    ELSE <<bs[1] \div 4, (bs[1] % 4) * 16 + (bs[2] \div 16),
           (bs[2] % 16) * 4 + (bs[3] \div 64), bs[3] % 64>>
         \o Base64Encode(SubSeq(bs, 4, Len(bs)))

\* Buffer.from(text, "base64")
RECURSIVE Base64Decode(_)
Base64Decode(t) ==
    IF Len(t) < 4 THEN <<>>
    ELSE IF t[3] = Pad
         THEN <<t[1] * 4 + (t[2] \div 16)>>
    ELSE IF t[4] = Pad
         THEN <<t[1] * 4 + (t[2] \div 16), (t[2] % 16) * 16 + (t[3] \div 4)>>
    ELSE <<t[1] * 4 + (t[2] \div 16), (t[2] % 16) * 16 + (t[3] \div 4),
           (t[3] % 4) * 64 + t[4]>>
         \o Base64Decode(SubSeq(t, 5, Len(t)))

(***************************************************************************)
(* The versioned store, as the handlers see it through octokit: for each  *)
(* branch and path a file with its version token, a directory or nothing.  *)
(***************************************************************************)
DefaultBranch == <<"m", "a", "i", "n">>

DevBranch == <<"d", "e", "v">>

PathF == <<"f">>

PathD == <<"d">>

PathN == <<"n">>

StorePaths == {PathF, PathD, PathN}

StoreBranches == {DefaultBranch, DevBranch}

\* The version token of a blob: an opaque value that identifies its content.
BlobSha(b64) == [blob |-> b64]

Absent == [type |-> "absent", sha |-> None, content |-> None]

Directory == [type |-> "dir", sha |-> None, content |-> None]

File(b64) == [type |-> "file", sha |-> Some(BlobSha(b64)), content |-> Some(b64)]

InitialContent == Base64Encode(Utf8Encode(<<104, 105>>))

InitialStore ==
    [k \in StoreBranches \X StorePaths |->
        IF k[2] = PathF THEN File(InitialContent)
        ELSE IF k[2] = PathD THEN Directory
        ELSE Absent]

\* ref / branch undefined: the default branch of the repository.
StoreKey(branch, path) ==
    <<IF branch = None THEN DefaultBranch ELSE Val(branch), path>>

HttpError(status, message) == [status |-> status, message |-> message]

ServerError == HttpError(500, "Server Error")

NotFound == HttpError(404, "Not Found")

Conflict == HttpError(409, "is at a different sha")

Unprocessable == HttpError(422, "Invalid request")

Outcome(err, data) == [err |-> err, data |-> data]

\* repos.getContent: the object of a file, the listing (an array) of a
\* directory, 404 for an absent path; or the request fails otherwise.
GetContentOutcomes(st, key) ==
    {Outcome(Some(ServerError), None)}
    \cup {IF st[key].type = "absent" THEN Outcome(Some(NotFound), None)
          ELSE IF st[key].type = "dir"
               THEN Outcome(None, Some([isArray |-> TRUE, sha |-> None,
                                        content |-> None]))
          ELSE Outcome(None, Some([isArray |-> FALSE, sha |-> st[key].sha,
                                   content |-> st[key].content]))}

\* Whether the store accepts repos.createOrUpdateFileContents: a new file
\* takes no token, an existing one the token of its current version.
StoreAccepts(st, key, sha) ==
    \/ st[key].type = "absent" /\ sha = None
    \/ st[key].type = "file" /\ sha = st[key].sha

StoreRejection(st, key, sha) ==
    IF st[key].type = "file" /\ sha # st[key].sha THEN Conflict ELSE Unprocessable

\* The outcomes of repos.createOrUpdateFileContents: the commit, with
\* data.content.path the path of the file; the store's rejection; or the
\* request fails otherwise.
CreateOrUpdateOutcomes(st, key, sha) ==
    {Outcome(Some(ServerError), None)}
    \cup {IF StoreAccepts(st, key, sha)
          THEN Outcome(None, Some([content |-> [path |-> key[2]]]))
          ELSE Outcome(Some(StoreRejection(st, key, sha)), None)}

RetData(op, arg, out) ==
    [t |-> "ret", op |-> op, arg |-> arg, idx |-> 0,
     err |-> IF IsSome(out.err) THEN Some(Val(out.err).message) ELSE None,
     status |-> IF IsSome(out.err) THEN Val(out.err).status ELSE 0,
     body |-> out.data]

\* !x of a string: undefined and "" are falsy.
Falsy(o) == o = None \/ Val(o) = <<>>

(***************************************************************************)
(* Request bodies of the store handlers.                                   *)
(***************************************************************************)
Owner == <<"o">>

Repo == <<"r">>

Message == <<"m">>

\* "A", "\u00e9B", an unpaired surrogate "\ud83d" and the pair "\ud83d\ude00".
Contents == {<<65>>, <<233, 66>>, <<55357>>, <<55357, 56832>>}

BranchArgs == {None, Some(DevBranch)}

PutBody(owner, repo, path, content, message, branch) ==
    [owner |-> owner, repo |-> repo, path |-> path, content |-> content,
     message |-> message, branch |-> branch]

\* Complete bodies, and bodies with one required field absent or empty.
PutBodies ==
    {PutBody(Some(Owner), Some(Repo), Some(p), Some(c), Some(Message), b) :
        p \in StorePaths, c \in Contents, b \in BranchArgs}
    \cup {PutBody(None, Some(Repo), Some(PathN), Some(<<65>>), Some(Message), None),
          PutBody(Some(Owner), None, Some(PathN), Some(<<65>>), Some(Message), None),
          PutBody(Some(Owner), Some(Repo), None, Some(<<65>>), Some(Message), None),
          PutBody(Some(Owner), Some(Repo), Some(PathN), None, Some(Message), None),
          PutBody(Some(Owner), Some(Repo), Some(PathN), Some(<<>>), Some(Message), None),
          PutBody(Some(Owner), Some(Repo), Some(PathN), Some(<<65>>), None, None)}

GetBody(owner, repo, path, ref) ==
    [owner |-> owner, repo |-> repo, path |-> path, ref |-> ref]

GetBodies ==
    {GetBody(Some(Owner), Some(Repo), Some(p), b) :
        p \in StorePaths, b \in BranchArgs}
    \cup {GetBody(None, Some(Repo), Some(PathF), None),
          GetBody(Some(Owner), None, Some(PathF), None),
          GetBody(Some(Owner), Some(Repo), None, None)}

(***************************************************************************)
(* POST /github/get-file                                                   *)
(***************************************************************************)
\* The handler from the arrival of the request to `await getContent`.
getFileStart(r) ==
    /\ pc[r] = "idle"
    /\ \E body \in GetBodies :
         /\ req' = [req EXCEPT ![r] = [kind |-> "get", file |-> None, body |-> body]]
         /\ IF Falsy(body.owner) \/ Falsy(body.repo) \/ Falsy(body.path)
            THEN Apply(r, Step(<<Res(400, ErrorBody("owner, repo, and path are required"))>>,
                               "done", loc[r]))
            ELSE Apply(r, Step(<<Call("getContent",
                                      [owner |-> Val(body.owner), repo |-> Val(body.repo),
                                       path |-> Val(body.path), ref |-> body.ref], 0)>>,
                               "getContent", loc[r]))
    /\ UNCHANGED <<store, serverFiles>>

\* The handler after `await octokit.repos.getContent(...)`.
getFileAfterGetContent(l, out) ==
    IF IsSome(out.err)
    THEN Step(<<Res(500, ErrorBody(Val(out.err).message))>>, "done", l)
    ELSE IF ~IsSome(Val(out.data).content)
         THEN Step(<<Res(400, ErrorBody("Not a file"))>>, "done", l)
    ELSE Step(<<Res(200, Utf8Decode(Base64Decode(Val(Val(out.data).content))))>>,
              "done", l)

getFileReturn(r) ==
    /\ pc[r] = "getContent"
    /\ LET call == log[r][Len(log[r])]
       IN  \E out \in GetContentOutcomes(store, StoreKey(call.arg.ref, call.arg.path)) :
             Apply(r, After(RetData("getContent", call.arg, out),
                            getFileAfterGetContent(loc[r], out)))
    /\ UNCHANGED <<req, store, serverFiles>>

(***************************************************************************)
(* POST /github/put-file                                                   *)
(***************************************************************************)
\* A probe that takes a token from whatever the store answered.
ProbeShaOfListing(out) ==
    IF IsSome(out.err) THEN None
    ELSE IF Val(out.data).isArray THEN Some(BlobSha(<<>>))
    ELSE Val(out.data).sha

\* A probe that never captures the token.
ProbeShaNever(out) == None

\* let sha = undefined; try { ... if ("sha" in get.data) sha = get.data.sha;
\* if ("sha" in get.data && Array.isArray(get.data)) sha = undefined; }
\* catch (e) { }
ProbeSha(out) ==
    IF IsSome(out.err) THEN None
    ELSE LET data == Val(out.data)
         IN  IF IsSome(data.sha) /\ data.isArray THEN None
             ELSE IF IsSome(data.sha) THEN data.sha
             ELSE None

\* A catch that reports nothing.
putFileCatchSilent(l, msg) == Step(<<>>, "done", l)

\* catch (e) { res.status(500).json({ error: e.message }); }
putFileCatch(l, msg) == Step(<<Res(500, ErrorBody(msg))>>, "done", l)

\* The handler from the arrival of the request to the await of the probe.
putFileStart(r) ==
    /\ pc[r] = "idle"
    /\ \E body \in PutBodies :
         /\ req' = [req EXCEPT ![r] = [kind |-> "put", file |-> None, body |-> body]]
         /\ IF Falsy(body.owner) \/ Falsy(body.repo) \/ Falsy(body.path)
               \/ Falsy(body.content) \/ Falsy(body.message)
            THEN Apply(r, Step(<<Res(400, ErrorBody("owner, repo, path, content, message are required"))>>,
                               "done", loc[r]))
            ELSE Apply(r, Step(<<Call("getContent",
                                      [owner |-> Val(body.owner), repo |-> Val(body.repo),
                                       path |-> Val(body.path), ref |-> body.branch], 0)>>,
                               "probe", loc[r]))
    /\ UNCHANGED <<store, serverFiles>>

\* The handler after the probe: the token, the encoding of the content and
\* the call of createOrUpdateFileContents.
putFileAfterProbe(l, body, out) ==
    LET sha == ProbeSha(out)
        b64 == Base64Encode(Utf8Encode(Val(body.content)))
    IN  Step(<<Call("createOrUpdateFileContents",
                    [owner |-> Val(body.owner), repo |-> Val(body.repo),
                     path |-> Val(body.path), message |-> Val(body.message),
                     content |-> b64, sha |-> sha, branch |-> body.branch], 0)>>,
             "write", [l EXCEPT !.sha = sha])

putFileProbeReturn(r) ==
    /\ pc[r] = "probe"
    /\ LET call == log[r][Len(log[r])]
       IN  \E out \in GetContentOutcomes(store, StoreKey(call.arg.ref, call.arg.path)) :
             Apply(r, After(RetData("getContent", call.arg, out),
                            putFileAfterProbe(loc[r], req[r].body, out)))
    /\ UNCHANGED <<req, store, serverFiles>>

\* res.json({ ok: true, path, branch: branch || result.data.content?.path,
\*            committed: true })
putFileDone(l, body, result) ==
    Step(<<Res(200, [ok |-> TRUE, path |-> Val(body.path),
                     branch |-> IF ~Falsy(body.branch) THEN Val(body.branch)
                                ELSE result.content.path,
                     committed |-> TRUE])>>, "done", l)

\* A handler that probes again when the store rejects its write.
putFileWriteReturnRetry(r) ==
    /\ pc[r] = "write"
    /\ LET call == log[r][Len(log[r])]
           key == StoreKey(call.arg.branch, call.arg.path)
       IN  \E out \in CreateOrUpdateOutcomes(store, key, call.arg.sha) :
             /\ Apply(r, After(RetData("createOrUpdateFileContents", call.arg, out),
                               IF IsSome(out.err)
                               THEN Step(<<Call("getContent",
                                               [owner |-> call.arg.owner,
                                                repo |-> call.arg.repo,
                                                path |-> call.arg.path,
                                                ref |-> call.arg.branch], 0)>>,
                                         "probe", loc[r])
                               ELSE putFileDone(loc[r], req[r].body, Val(out.data))))
             /\ store' = IF IsSome(out.err) THEN store
                         ELSE [store EXCEPT ![key] = File(call.arg.content)]
    /\ UNCHANGED <<req, serverFiles>>

\* `await octokit.repos.createOrUpdateFileContents(...)` returns; the store
\* holds the new version when it accepted the call.
putFileWriteReturn(r) ==
    /\ pc[r] = "write"
    /\ LET call == log[r][Len(log[r])]
           key == StoreKey(call.arg.branch, call.arg.path)
       IN  \E out \in CreateOrUpdateOutcomes(store, key, call.arg.sha) :
             /\ Apply(r, After(RetData("createOrUpdateFileContents", call.arg, out),
                               IF IsSome(out.err)
                               THEN putFileCatch(loc[r], Val(out.err).message)
                               ELSE putFileDone(loc[r], req[r].body, Val(out.data))))
             /\ store' = IF IsSome(out.err) THEN store
                         ELSE [store EXCEPT ![key] = File(call.arg.content)]
    /\ UNCHANGED <<req, serverFiles>>

(***************************************************************************)
(* The system.                                                             *)
(***************************************************************************)
Init ==
    /\ pc = [r \in Reqs |-> "idle"]
    /\ req = [r \in Reqs |-> NoReq]
    /\ loc = [r \in Reqs |-> NoLoc]
    /\ log = [r \in Reqs |-> <<>>]
    /\ store = InitialStore
    /\ serverFiles = {}

Next ==
    \E r \in Reqs :
        \/ getFileStart(r)
        \/ getFileReturn(r)
        \/ putFileStart(r)
        \/ putFileProbeReturn(r)
        \/ putFileWriteReturn(r)
        \/ uploadFtpStart(r)
        \/ uploadFtpAccessReturn(r)
        \/ uploadZipStart(r)
        \/ uploadZipAccessReturn(r)
        \/ uploadBufferEnsureDirReturn(r)
        \/ uploadBufferUploadFromReturn(r)

Spec == Init /\ [][Next]_vars

(***************************************************************************)
(* Reading the record of a request.                                        *)
(***************************************************************************)
Idx(r) == 1..Len(log[r])

IsUpload(r) == req[r].kind \in {"ftp", "zip"}

IsCall(e, op) == e.t = "call" /\ e.op = op

IsRet(e, op) == e.t = "ret" /\ e.op = op

Failed(e) == e.t = "ret" /\ e.err # None

Calls(r, op) == {k \in Idx(r) : IsCall(log[r][k], op)}

CallsOf(r, op, idx) == {k \in Calls(r, op) : log[r][k].idx = idx}

Closes(r) == {k \in Idx(r) : log[r][k].t = "close"}

Responses(r) == {k \in Idx(r) : log[r][k].t = "res"}

TransferOps == {"ensureDir", "uploadFrom"}

\* The response of a request that has ended.
Response(r) == log[r][CHOOSE k \in Responses(r) : TRUE]

(***************************************************************************)
(* C1: every upload-single and upload-archive request invokes the close of *)
(* its transfer session exactly once on every exit path: never before the  *)
(* handler ends, never twice, and once when it has ended (on success, when *)
(* access fails, when ensureDir or uploadFrom fails, and when the payload  *)
(* is missing).                                                            *)
(***************************************************************************)
C1_CloseExactlyOnce ==
    \A r \in Reqs :
        IsUpload(r) =>
            /\ Cardinality(Closes(r)) <= 1
            /\ pc[r] = "done" <=> Cardinality(Closes(r)) = 1

\* One request was rejected for its missing payload and another failed in
\* the middle of its uploads; both are over.
C1_Witness ==
    \E r1, r2 \in Reqs :
        /\ IsUpload(r1) /\ req[r1].file = None /\ pc[r1] = "done"
        /\ req[r2].kind = "zip" /\ pc[r2] = "done"
        /\ \E k \in Idx(r2) : IsRet(log[r2][k], "uploadFrom") /\ ~Failed(log[r2][k])
        /\ \E k \in Idx(r2) : log[r2][k].op \in TransferOps /\ Failed(log[r2][k])
        /\ Cardinality(Closes(r1)) = 1 /\ Cardinality(Closes(r2)) = 1

(***************************************************************************)
(* Reading the record of a write-file request.                             *)
(***************************************************************************)
\* The return of the existence probe says the path is absent (404).
ProbeNotFound(e) == IsRet(e, "getContent") /\ e.err # None /\ e.status = 404

\* The return of the existence probe is the listing of a directory.
ProbeListing(e) == IsRet(e, "getContent") /\ e.err = None /\ Val(e.body).isArray

\* The return of the existence probe is the object of a single file.
ProbeFile(e) == IsRet(e, "getContent") /\ e.err = None /\ ~Val(e.body).isArray

Committed(e) ==
    e.t = "res" /\ e.status = 200 /\ Val(e.body).ok /\ Val(e.body).committed

UpstreamFailure(e, msg) == e = Res(500, ErrorBody(msg))

(***************************************************************************)
(* C2: in a write-file request whose existence probe fails with NotFound   *)
(* or returns a directory listing, the call of createOrUpdateFileContents  *)
(* that follows carries no version token, and the request reports          *)
(* committed when the store accepts that call.                             *)
(***************************************************************************)
C2_NoTokenWhenNotASingleFile ==
    \A r \in Reqs :
        req[r].kind = "put" =>
            \A k \in Idx(r) :
                ProbeNotFound(log[r][k]) \/ ProbeListing(log[r][k]) =>
                    /\ k + 1 <= Len(log[r])
                    /\ IsCall(log[r][k + 1], "createOrUpdateFileContents")
                    /\ log[r][k + 1].arg.sha = None
                    /\ \A j \in Idx(r) :
                           /\ IsRet(log[r][j], "createOrUpdateFileContents")
                           /\ ~Failed(log[r][j])
                           => j + 1 = Len(log[r]) /\ Committed(log[r][j + 1])

\* A request found no file, sent no token and committed; another got the
\* listing of a directory and sent no token either.
C2_Witness ==
    \E r1, r2 \in Reqs :
        /\ req[r1].kind = "put" /\ pc[r1] = "done"
        /\ \E k \in Idx(r1) : ProbeNotFound(log[r1][k])
        /\ Committed(log[r1][Len(log[r1])])
        /\ req[r2].kind = "put"
        /\ \E k \in Idx(r2) :
               /\ ProbeListing(log[r2][k])
               /\ log[r2][k + 1].arg.sha = None

(***************************************************************************)
(* C3: in a write-file request whose existence probe resolves to a single  *)
(* file, the call of createOrUpdateFileContents carries the version token  *)
(* that this probe returned, for the owner, repository, path and branch    *)
(* the probe was made for.                                                 *)
(***************************************************************************)
C3_TokenIsTheProbedToken ==
    \A r \in Reqs :
        req[r].kind = "put" =>
            \A k \in Idx(r) :
                ProbeFile(log[r][k]) =>
                    /\ k + 1 <= Len(log[r])
                    /\ IsCall(log[r][k + 1], "createOrUpdateFileContents")
                    /\ log[r][k + 1].arg.sha = Val(log[r][k].body).sha
                    /\ log[r][k + 1].arg.sha # None
                    /\ log[r][k + 1].arg.owner = log[r][k].arg.owner
                    /\ log[r][k + 1].arg.repo = log[r][k].arg.repo
                    /\ log[r][k + 1].arg.path = log[r][k].arg.path
                    /\ log[r][k + 1].arg.branch = log[r][k].arg.ref

\* An update of the existing file on the dev branch committed with the
\* token its probe returned.
C3_Witness ==
    \E r \in Reqs :
        /\ req[r].kind = "put" /\ pc[r] = "done"
        /\ req[r].body.branch = Some(DevBranch)
        /\ \E k \in Idx(r) :
               /\ ProbeFile(log[r][k])
               /\ log[r][k + 1].arg.sha = Val(log[r][k].body).sha
        /\ Committed(log[r][Len(log[r])])

(***************************************************************************)
(* C4: in a write-file request only a NotFound failure of the existence    *)
(* probe is turned into "no version token": when the probe fails           *)
(* otherwise, the request ends with an error result (status 500) that      *)
(* carries the message of the store, with no further call.                 *)
(***************************************************************************)
C4_ProbeFailureSurfaces ==
    \A r \in Reqs :
        req[r].kind = "put" =>
            \A k \in Idx(r) :
                /\ IsRet(log[r][k], "getContent")
                /\ Failed(log[r][k])
                /\ log[r][k].status # 404
                => /\ Len(log[r]) = k + 1
                   /\ UpstreamFailure(log[r][k + 1], Val(log[r][k].err))

(***************************************************************************)
(* C5: no request retries: a write-file request issues the existence probe *)
(* at most once and createOrUpdateFileContents at most once, an upload     *)
(* request issues access at most once and, for each entry, ensureDir and   *)
(* uploadFrom at most once, whatever the calls return.                     *)
(***************************************************************************)
C5_NoRetry ==
    \A r \in Reqs :
        /\ Cardinality(Calls(r, "getContent")) <= 1
        /\ Cardinality(Calls(r, "createOrUpdateFileContents")) <= 1
        /\ Cardinality(Calls(r, "access")) <= 1
        /\ \A idx \in 0..Len(loc[r].entries) + 1, op \in TransferOps :
               Cardinality(CallsOf(r, op, idx)) <= 1
        /\ \A k \in Idx(r) :
               log[r][k].op \in TransferOps => log[r][k].idx \in 1..Len(loc[r].entries) + 1

\* A write ended on a version-token conflict and an upload on a failed
\* uploadFrom: each call was made once.
C5_Witness ==
    \E r1, r2 \in Reqs :
        /\ req[r1].kind = "put" /\ pc[r1] = "done"
        /\ \E k \in Idx(r1) :
               IsRet(log[r1][k], "createOrUpdateFileContents") /\ log[r1][k].status = 409
        /\ Cardinality(Calls(r1, "createOrUpdateFileContents")) = 1
        /\ IsUpload(r2) /\ pc[r2] = "done"
        /\ \E k \in Idx(r2) : IsRet(log[r2][k], "uploadFrom") /\ Failed(log[r2][k])
        /\ Cardinality(Calls(r2, "uploadFrom")) = 1

(***************************************************************************)
(* Reading the record of an upload-archive request.                        *)
(***************************************************************************)
\* The entries of the archive of request r, a valid archive.
ArchiveEntries(r) == Val(req[r].file).entries

FileIndices(es) == {j \in 1..Len(es) : ~es[j].isDirectory}

HasArchive(r) == req[r].kind = "zip" /\ req[r].file # None

\* The archive of request r parsed.
ParsedArchive(r) == HasArchive(r) /\ Val(req[r].file).valid

\* The upload of entry j of request r has completed before position k.
UploadedBefore(r, j, k) ==
    \E m \in 1..(k - 1) :
        IsRet(log[r][m], "uploadFrom") /\ log[r][m].idx = j /\ ~Failed(log[r][m])

(***************************************************************************)
(* C6: a successful upload-archive request reports as `uploaded` the       *)
(* number of entries of the archive that are not directories; an archive   *)
(* of directory entries only yields uploaded: 0 and no uploadFrom call.    *)
(***************************************************************************)
C6_UploadedCountsFiles ==
    \A r \in Reqs :
        ParsedArchive(r) /\ pc[r] = "done" /\ Response(r).status = 200 =>
            /\ Val(Response(r).body).uploaded
                   = Cardinality(FileIndices(ArchiveEntries(r)))
            /\ FileIndices(ArchiveEntries(r)) = {} => Calls(r, "uploadFrom") = {}

(***************************************************************************)
(* C7: when the archive of an upload-archive request does not parse, the   *)
(* request ends with status 400 and never issues the access call.          *)
(***************************************************************************)
C7_InvalidArchiveBeforeSession ==
    \A r \in Reqs :
        HasArchive(r) /\ ~Val(req[r].file).valid =>
            /\ Calls(r, "access") = {}
            /\ pc[r] = "done" => Response(r).status = 400

(***************************************************************************)
(* C8: the transfer-server operations of an upload request are sequential  *)
(* and in archive order: a call and its return are adjacent in the record  *)
(* (nothing else is issued while a command is in flight), and ensureDir    *)
(* or uploadFrom of an entry is issued only after the upload of every      *)
(* earlier non-directory entry has completed.                              *)
(***************************************************************************)
C8_SequentialInArchiveOrder ==
    \A r \in Reqs :
        IsUpload(r) =>
            \A k \in Idx(r) :
                log[r][k].t = "call" =>
                    /\ k < Len(log[r]) =>
                           /\ IsRet(log[r][k + 1], log[r][k].op)
                           /\ log[r][k + 1].idx = log[r][k].idx
                    /\ k = Len(log[r]) => pc[r] = log[r][k].op
                    /\ req[r].kind = "zip" /\ log[r][k].op \in TransferOps =>
                           \A j \in FileIndices(ArchiveEntries(r)) :
                               j < log[r][k].idx => UploadedBefore(r, j, k)

\* An archive of two files has been uploaded, the second after the first.
C8_Witness ==
    \E r \in Reqs :
        /\ ParsedArchive(r) /\ pc[r] = "done"
        /\ Cardinality(FileIndices(ArchiveEntries(r))) = 2
        /\ Response(r).status = 200
        /\ \E k1, k2 \in Calls(r, "uploadFrom") :
               k1 < k2 /\ log[r][k1].idx < log[r][k2].idx

(***************************************************************************)
(* C9: when the remote path of an entry has a parent directory, its        *)
(* upload starts right after ensureDir has completed for the whole chain   *)
(* of its parent directories (the path up to its last segment); the        *)
(* entries a/b and a/c/d under /htdocs give /htdocs/a and /htdocs/a/c. A   *)
(* directory entry of the archive triggers no ensureDir and no upload.     *)
(***************************************************************************)
\* The path has a directory above its last segment: a name, a slash after
\* it and a name after that slash.
HasParent(p) ==
    \E i, j, k \in 1..Len(p) :
        i < j /\ j < k /\ p[i] # Slash /\ p[j] = Slash /\ p[k] # Slash

\* The path up to its last slash: the chain of the parent directories.
ParentChain(p) ==
    LET last == CHOOSE i \in 1..Len(p) :
                    p[i] = Slash /\ \A j \in (i + 1)..Len(p) : p[j] # Slash
    IN  SubSeq(p, 1, last - 1)

C9_DirectoriesBeforeUpload ==
    \A r \in Reqs :
        IsUpload(r) =>
            \A k \in Idx(r) :
                /\ IsCall(log[r][k], "uploadFrom") /\ HasParent(log[r][k].arg) =>
                       /\ k > 2
                       /\ IsRet(log[r][k - 1], "ensureDir")
                       /\ ~Failed(log[r][k - 1])
                       /\ log[r][k - 1].idx = log[r][k].idx
                       /\ log[r][k - 1].arg = ParentChain(log[r][k].arg)
                /\ req[r].kind = "zip" /\ log[r][k].op \in TransferOps =>
                       /\ log[r][k].idx \in FileIndices(ArchiveEntries(r))
                       /\ log[r][k].t = "call" /\ log[r][k].op = "uploadFrom" =>
                              log[r][k].arg
                                  = Remote(loc[r].basePath,
                                           ArchiveEntries(r)[log[r][k].idx].entryName)

\* The archive a/, a/b, a/c/d under /htdocs: /htdocs/a/c has been ensured
\* and the upload of a/c/d has started.
C9_Witness ==
    \E r \in Reqs :
        /\ ParsedArchive(r)
        /\ req[r].body.basePath = None
        /\ \E j \in 1..Len(ArchiveEntries(r)) : ArchiveEntries(r)[j].isDirectory
        /\ \E k \in Calls(r, "uploadFrom") :
               /\ log[r][k].arg = DefaultBasePath \o <<Slash>> \o EntryACD.entryName
               /\ log[r][k - 1].arg = DefaultBasePath \o <<"/", "a", "/", "c">>

(***************************************************************************)
(* C10: in an upload-archive request the first failure of ensureDir or     *)
(* uploadFrom ends the sequence: the error result (status 500, the         *)
(* message of the failure) and the close follow at once and nothing is     *)
(* issued after them; the files uploaded before are still on the server.   *)
(***************************************************************************)
C10_FirstFailureAborts ==
    \A r \in Reqs :
        req[r].kind = "zip" =>
            \A k \in Idx(r) :
                /\ log[r][k].op \in TransferOps /\ Failed(log[r][k]) =>
                       /\ Len(log[r]) = k + 2
                       /\ UpstreamFailure(log[r][k + 1], Val(log[r][k].err))
                       /\ log[r][k + 2] = CloseEv
                       /\ pc[r] = "done"
                /\ IsRet(log[r][k], "uploadFrom") /\ ~Failed(log[r][k]) =>
                       log[r][k].arg \in serverFiles

\* The first entry was uploaded, the second failed: the request is over
\* and the first file is on the server.
C10_Witness ==
    \E r \in Reqs :
        /\ ParsedArchive(r) /\ pc[r] = "done"
        /\ \E k1, k2 \in Idx(r) :
               /\ k1 < k2
               /\ IsRet(log[r][k1], "uploadFrom") /\ ~Failed(log[r][k1])
               /\ log[r][k1].arg \in serverFiles
               /\ log[r][k2].op \in TransferOps /\ Failed(log[r][k2])
               /\ log[r][k2].idx > log[r][k1].idx
        /\ Response(r).status = 500

(***************************************************************************)
(* C11: a request that lacks a required input (owner, repo or path for     *)
(* get-file; owner, repo, path, content or message for put-file; the       *)
(* payload for upload-ftp and upload-zip) ends with status 400 and issues  *)
(* no network call: no getContent, no createOrUpdateFileContents, no       *)
(* access, no ensureDir, no uploadFrom.                                    *)
(***************************************************************************)
\* A required field of the body is undefined or empty.
Missing(o) == o = None \/ o = Some(<<>>)

MissingInput(r) ==
    \/ req[r].kind = "get"
       /\ (Missing(req[r].body.owner) \/ Missing(req[r].body.repo)
           \/ Missing(req[r].body.path))
    \/ req[r].kind = "put"
       /\ (Missing(req[r].body.owner) \/ Missing(req[r].body.repo)
           \/ Missing(req[r].body.path) \/ Missing(req[r].body.content)
           \/ Missing(req[r].body.message))
    \/ IsUpload(r) /\ req[r].file = None

C11_InvalidInputNoNetwork ==
    \A r \in Reqs :
        MissingInput(r) =>
            /\ \A k \in Idx(r) : log[r][k].t \notin {"call", "ret"}
            /\ pc[r] = "done"
            /\ Cardinality(Responses(r)) = 1
            /\ Response(r).status = 400

\* A put-file without content and an upload-zip without payload were both
\* rejected.
C11_Witness ==
    \E r1, r2 \in Reqs :
        /\ req[r1].kind = "put" /\ req[r1].body.content = None /\ pc[r1] = "done"
        /\ req[r2].kind = "zip" /\ req[r2].file = None /\ pc[r2] = "done"
        /\ Response(r1).status = 400 /\ Response(r2).status = 400

C13_ReportsBranchUsed ==
    \A r \in Reqs :
        req[r].kind = "put" /\ pc[r] = "done" /\ Committed(Response(r)) =>
            /\ Val(Response(r).body).path = Val(req[r].body.path)
            /\ Val(Response(r).body).branch
                   = IF req[r].body.branch = None THEN DefaultBranch
                     ELSE Val(req[r].body.branch)

(***************************************************************************)
(* The join of a base path and an entry name, on its own: every base path  *)
(* and entry name of up to MaxPathLen characters, and the defaults. The    *)
(* step is the body of the for loop of upload-zip up to its first await.   *)
(***************************************************************************)
JoinChars == {Slash, "x"}

\* "/x/y.txt"
ExampleEntry == <<"/", "x", "/", "y", ".", "t", "x", "t">>

\* "/htdocs/x/y.txt"
ExampleRemote ==
    <<"/", "h", "t", "d", "o", "c", "s", "/", "x", "/", "y", ".", "t", "x", "t">>

JoinEntryNames == SeqsUpTo(JoinChars, MaxPathLen) \cup {ExampleEntry}

JoinBasePaths == SeqsUpTo(JoinChars, MaxPathLen) \cup {DefaultBasePath}

JoinInit ==
    /\ pc = [r \in {1} |-> "join"]
    /\ req \in {[r \in {1} |->
                    [kind |-> "zip",
                     file |-> Some([valid |-> TRUE,
                                    entries |-> <<[entryName |-> e,
                                                   isDirectory |-> FALSE]>>]),
                     body |-> [basePath |-> Some(b)]]] :
                e \in JoinEntryNames, b \in JoinBasePaths}
    /\ loc = [r \in {1} |-> NoLoc]
    /\ log = [r \in {1} |-> <<>>]
    /\ store = InitialStore
    /\ serverFiles = {}

\* const remote = basePath + "/" + ...; await uploadBuffer(client, remote, ...)
JoinStep(r) ==
    /\ pc[r] = "join"
    /\ LET l == [loc[r] EXCEPT !.basePath = Val(req[r].body.basePath),
                               !.entries = Val(req[r].file).entries]
       IN  Apply(r, uploadZipLoop(l, 0))
    /\ UNCHANGED <<req, store, serverFiles>>

JoinNext == \E r \in DOMAIN pc : JoinStep(r)

SpecJoin == JoinInit /\ [][JoinNext]_vars

(***************************************************************************)
(* C14: for every entry name and base path the remote path is the base     *)
(* path, one slash, and the entry name without its leading slashes (all of *)
(* them); /x/y.txt joined to /htdocs is exactly /htdocs/x/y.txt. The base  *)
(* is kept from its first character on, and with a base that does not end  *)
(* in a slash the join is a single slash.                                  *)
(***************************************************************************)
\* s is e without its leading slashes.
IsStripped(s, e) ==
    \E n \in 0..Len(e) :
        /\ \A i \in 1..n : e[i] = Slash
        /\ n < Len(e) => e[n + 1] # Slash
        /\ s = SubSeq(e, n + 1, Len(e))

C14_RemotePathJoin ==
    \A r \in DOMAIN pc :
        pc[r] # "join" /\ req[r].kind = "zip" /\ Len(loc[r].entries) = 1 =>
            LET e == loc[r].entries[1].entryName
                b == loc[r].basePath
                p == loc[r].remote
                n == Len(b)
            IN  /\ Len(p) > n
                /\ SubSeq(p, 1, n) = b
                /\ p[n + 1] = Slash
                /\ IsStripped(SubSeq(p, n + 2, Len(p)), e)
                /\ (b = <<>> \/ b[n] # Slash) =>
                       /\ Len(p) > n + 1 => p[n + 2] # Slash
                       /\ \A k \in Idx(r) :
                              IsCall(log[r][k], "uploadFrom") => log[r][k].arg = p
                /\ e = ExampleEntry /\ b = DefaultBasePath => p = ExampleRemote

\* /x/y.txt has been joined to /htdocs.
C14_Witness ==
    \E r \in DOMAIN pc :
        /\ pc[r] = "ensureDir"
        /\ loc[r].entries = <<[entryName |-> ExampleEntry, isDirectory |-> FALSE]>>
        /\ loc[r].basePath = DefaultBasePath
        /\ loc[r].remote = ExampleRemote

(***************************************************************************)
(* C15: a get-file request on a path that does not exist ends with a       *)
(* NotFound error, one on a directory with the NotAFile error, and any     *)
(* other failure of the store with an UpstreamFailure (status 500 and the  *)
(* message of the store); the three results differ in kind: the NotFound   *)
(* result is neither the NotAFile result nor a status 500.                 *)
(***************************************************************************)
NotAFile(e) == e = Res(400, ErrorBody("Not a file"))

C15_ReadErrorsDistinct ==
    \A r \in Reqs :
        req[r].kind = "get" /\ pc[r] = "done" =>
            \A k \in Idx(r) :
                /\ ProbeNotFound(log[r][k]) =>
                       /\ Response(r).status \notin {200, 500}
                       /\ ~NotAFile(Response(r))
                /\ ProbeListing(log[r][k]) => NotAFile(Response(r))
                /\ IsRet(log[r][k], "getContent") /\ Failed(log[r][k])
                   /\ log[r][k].status # 404
                   => UpstreamFailure(Response(r), Val(log[r][k].err))

(***************************************************************************)
(* Round trip: a put-file request r1 created a file at a path that did not *)
(* exist, no other request has written that path, and the getContent of a  *)
(* get-file request r2 for the same path and reference now returns.        *)
(***************************************************************************)
WrittenKey(r) == StoreKey(req[r].body.branch, Val(req[r].body.path))

\* Request r has had a write of the path of `key` accepted by the store.
HasWritten(r, key) ==
    /\ req[r].kind = "put"
    /\ \E k \in Idx(r) :
           /\ IsRet(log[r][k], "createOrUpdateFileContents")
           /\ ~Failed(log[r][k])
           /\ StoreKey(log[r][k].arg.branch, log[r][k].arg.path) = key

ReadsAfterCreate(r1, r2) ==
    /\ req[r1].kind = "put" /\ pc[r1] = "done" /\ Committed(Response(r1))
    /\ \E k \in Idx(r1) : ProbeNotFound(log[r1][k])
    /\ \A r3 \in Reqs \ {r1} : ~HasWritten(r3, WrittenKey(r1))
    /\ req[r2].kind = "get" /\ pc[r2] = "getContent" /\ pc'[r2] = "done"
    /\ StoreKey(req[r2].body.ref, Val(req[r2].body.path)) = WrittenKey(r1)

\* The read that returns gives the content r1 wrote.
ReadsBack(r1, r2) ==
    LET ret == log'[r2][Len(log'[r2]) - 1]
        res == log'[r2][Len(log'[r2])]
    IN  /\ IsRet(ret, "getContent")
        /\ ret.status # 404
        /\ ~Failed(ret) => res = Res(200, Val(req[r1].body.content))

\* No surrogate without its pair.
WellFormed(c) ==
    \A i \in 1..Len(c) :
        /\ IsHigh(c[i]) => i < Len(c) /\ IsLow(c[i + 1])
        /\ IsLow(c[i]) => i > 1 /\ IsHigh(c[i - 1])

(***************************************************************************)
(* C16: for every non-empty content C and every path that does not exist,  *)
(* a successful put-file of C followed, with no other write in between, by *)
(* a get-file of the same path and reference returns C.                    *)
(***************************************************************************)
C16_RoundTrip ==
    [][\A r1, r2 \in Reqs : ReadsAfterCreate(r1, r2) => ReadsBack(r1, r2)]_vars

(***************************************************************************)
(* C16, amended: the same for every non-empty content C that has no        *)
(* unpaired surrogate.                                                     *)
(***************************************************************************)
C16_RoundTripWellFormed ==
    [][\A r1, r2 \in Reqs :
           ReadsAfterCreate(r1, r2) /\ WellFormed(Val(req[r1].body.content))
           => ReadsBack(r1, r2)]_vars

\* The surrogate pair was written to the new path on the dev branch and
\* read back.
C16_Witness ==
    \E r1, r2 \in Reqs :
        /\ req[r1].kind = "put" /\ pc[r1] = "done" /\ Committed(Response(r1))
        /\ req[r1].body.content = Some(<<55357, 56832>>)
        /\ req[r1].body.path = Some(PathN)
        /\ req[r1].body.branch = Some(DevBranch)
        /\ req[r2].kind = "get" /\ pc[r2] = "done"
        /\ req[r2].body.path = Some(PathN)
        /\ req[r2].body.ref = Some(DevBranch)
        /\ Response(r2) = Res(200, <<55357, 56832>>)

(***************************************************************************)
(* C17: every get-file, put-file, upload-ftp and upload-zip request        *)
(* reports exactly one result on every path through its handler: never a   *)
(* second one, one when the handler has ended, and while it has reported   *)
(* none the handler is waiting for a network call that has not returned.   *)
(***************************************************************************)
C17_ExactlyOneResult ==
    \A r \in Reqs :
        /\ Cardinality(Responses(r)) <= 1
        /\ pc[r] = "done" <=> Cardinality(Responses(r)) = 1
        /\ pc[r] = "idle" <=> log[r] = <<>>
        /\ pc[r] \notin {"idle", "done"} => log[r][Len(log[r])].t = "call"
        /\ \A k \in Responses(r) : log[r][k].status \in {200, 400, 500}

\* A put-file whose write failed and an upload-zip that went through have
\* each reported one result.
C17_Witness ==
    \E r1, r2 \in Reqs :
        /\ req[r1].kind = "put" /\ pc[r1] = "done"
        /\ \E k \in Idx(r1) :
               IsRet(log[r1][k], "createOrUpdateFileContents") /\ Failed(log[r1][k])
        /\ Response(r1).status = 500
        /\ req[r2].kind = "zip" /\ pc[r2] = "done"
        /\ Response(r2).status = 200
        /\ Calls(r2, "uploadFrom") # {}

(***************************************************************************)
(* C18: an upload request calls access at most once, and issues ensureDir  *)
(* and uploadFrom only while its session is open: after its access has     *)
(* returned without error and before its close. When access fails, the     *)
(* request issues no ensureDir and no uploadFrom.                          *)
(***************************************************************************)
C18_TransfersWhileSessionOpen ==
    \A r \in Reqs :
        IsUpload(r) =>
            /\ Cardinality(Calls(r, "access")) <= 1
            /\ \A k \in Idx(r) :
                   /\ log[r][k].op \in TransferOps =>
                          /\ \E m \in 1..(k - 1) :
                                 IsRet(log[r][m], "access") /\ ~Failed(log[r][m])
                          /\ \A c \in Closes(r) : c > k
                   /\ IsRet(log[r][k], "access") /\ Failed(log[r][k]) =>
                          \A j \in Idx(r) : log[r][j].op \notin TransferOps

\* One request could not connect and issued no transfer; another uploaded
\* in its open session and closed it.
C18_Witness ==
    \E r1, r2 \in Reqs :
        /\ IsUpload(r1) /\ pc[r1] = "done"
        /\ \E k \in Idx(r1) : IsRet(log[r1][k], "access") /\ Failed(log[r1][k])
        /\ IsUpload(r2) /\ pc[r2] = "done"
        /\ \E k \in Idx(r2) : IsRet(log[r2][k], "uploadFrom") /\ ~Failed(log[r2][k])
        /\ Closes(r2) # {}

(***************************************************************************)
(* Concurrent put-file requests whose existence probes all complete before *)
(* the store answers any createOrUpdateFileContents: the handlers are the  *)
(* same, the store answers a write only when no request is still to probe. *)
(***************************************************************************)
AllProbed == \A r \in Reqs : pc[r] \in {"write", "done"}

RaceNext ==
    \E r \in Reqs :
        \/ putFileStart(r)
        \/ putFileProbeReturn(r)
        \/ AllProbed /\ putFileWriteReturn(r)

SpecRace == Init /\ [][RaceNext]_vars

\* Request r passed the check of its inputs and probed the store.
Probed(r) == req[r].kind = "put" /\ Calls(r, "getContent") # {}

MayHang(r) == r = 1

\* An awaited call of request r returns and its handler goes on.
Returns(r) ==
    \/ getFileReturn(r)
    \/ putFileProbeReturn(r)
    \/ putFileWriteReturn(r)
    \/ uploadFtpAccessReturn(r)
    \/ uploadZipAccessReturn(r)
    \/ uploadBufferEnsureDirReturn(r)
    \/ uploadBufferUploadFromReturn(r)

\* The requests of the progress check: one of each kind, complete.
LiveReqs ==
    {[kind |-> "get", file |-> None,
      body |-> GetBody(Some(Owner), Some(Repo), Some(PathF), None)],
     [kind |-> "put", file |-> None,
      body |-> PutBody(Some(Owner), Some(Repo), Some(PathF), Some(<<65>>),
                       Some(Message), None)],
     [kind |-> "ftp", file |-> Some("payload"), body |-> [remotePath |-> None]],
     [kind |-> "zip",
      file |-> Some([valid |-> TRUE, entries |-> <<EntryDirA, EntryAB>>]),
      body |-> [basePath |-> None]]}

\* A request arrives.
Starts(r) ==
    \/ getFileStart(r)
    \/ putFileStart(r)
    \/ uploadFtpStart(r)
    \/ uploadZipStart(r)

LiveNext ==
    \E r \in Reqs :
        \/ Starts(r) /\ req'[r] \in LiveReqs
        \/ Returns(r)

SpecLive ==
    /\ Init
    /\ [][LiveNext]_vars
    /\ \A r \in Reqs : ~MayHang(r) => WF_vars(Returns(r))

\* Request r has reported its result and, if it is an upload, closed its
\* session.
Finished(r) ==
    /\ pc[r] = "done"
    /\ Responses(r) # {}
    /\ IsUpload(r) => Closes(r) # {}

(***************************************************************************)
(* C20: a network call that never returns blocks only its own request:     *)
(* every other request, whose own calls all return, reports its result     *)
(* and, if it is an upload request, closes its session, whatever the       *)
(* request with the hung call does.                                        *)
(***************************************************************************)
C20_HungCallBlocksOnlyItsRequest ==
    \A r \in Reqs : ~MayHang(r) => (pc[r] # "idle" ~> Finished(r))

\* Request 1 is waiting for its access call while another upload, which
\* started and connected after it, has finished.
C20_Witness ==
    \E r \in Reqs :
        /\ ~MayHang(r)
        /\ pc[1] = "access"
        /\ req[r].kind = "zip" /\ Finished(r)
        /\ Calls(r, "uploadFrom") # {}

====
